---- MODULE Spec2Model ----
(***************************************************************************)
(* Model of src/LibSodium/c/libsodium.cpp: the ChaCha20-Poly1305 (IETF)    *)
(* boundary functions chacha20_poly1305_encrypt / _decrypt, the three      *)
(* length accessors, and the libsodium routines they call.                 *)
(*                                                                         *)
(* The adapter's own code (the sodium_init guard, the argument order of    *)
(* the two provider calls, the status that is returned) is translated      *)
(* line by line.  The provider (libsodium) is not part of the repository;  *)
(* its routines are modelled by what libsodium documents and does: a       *)
(* stream cipher XORed over the message, a 16-byte tag over (key, nonce,   *)
(* ad, ciphertext body), verify-then-decrypt with the output zeroed on a   *)
(* failed verification, and a sodium_init serialised by a critical         *)
(* section.  The keystream and the tag are small stand-ins for ChaCha20    *)
(* and Poly1305.                                                           *)
(***************************************************************************)
EXTENDS Integers, Sequences, FiniteSets, TLC

VARIABLES
    initialized,  \* libsodium's process-wide "initialized" flag
    lock,         \* the threads inside libsodium's init critical section
    initRuns,     \* how many times the body of sodium_init has run
    pc,           \* per thread: position inside the current adapter call
    op,           \* per thread: "enc", "dec" or "none"
    args,         \* per thread: the arguments of the current call
    initRes,      \* per thread: what sodium_init returned in this call
    status,       \* per thread: the int the adapter call returns
    ctBuf,        \* per thread: caller's ciphertext buffer
    ctLen,        \* per thread: caller's *ciphertext_len
    msgBuf,       \* per thread: caller's message (plaintext) buffer
    msgLen,       \* per thread: caller's *message_len
    lastEnc,      \* per thread: inputs of the encryption that filled ctBuf
    pre,          \* per thread: the output buffer and length before the call
    nInit,        \* per thread: sodium_init invocations in this call
    nProv,        \* per thread: provider routine invocations in this call
    cause,        \* per thread: why the current call failed, or "none"
    everInitFailed, \* some earlier sodium_init has reported failure
    lastAcc       \* per thread: <<name, value>> of the accessor call just made

vars == <<initialized, lock, initRuns, pc, op, args, initRes, status, ctBuf,
          ctLen, msgBuf, msgLen, lastEnc, pre, nInit, nProv, cause,
          everInitFailed, lastAcc>>

callVars == <<initialized, lock, initRuns, pc, op, args, initRes, status,
              ctBuf, ctLen, msgBuf, msgLen, lastEnc, pre, nInit, nProv,
              cause, everInitFailed>>

----------------------------------------------------------------------------
(* Bounds of the model *)

MaxLen == 1      \* longest plaintext

----------------------------------------------------------------------------
(* Provider constants (sodium.h) *)

crypto_aead_chacha20poly1305_ietf_KEYBYTES == 32
crypto_aead_chacha20poly1305_ietf_NPUBBYTES == 12
crypto_aead_chacha20poly1305_ietf_ABYTES == 16

Poison == 170    \* content of a buffer nothing has written yet

Cap == MaxLen + crypto_aead_chacha20poly1305_ietf_ABYTES

----------------------------------------------------------------------------
(* Bytes and buffers *)

RECURSIVE Xor(_, _)
Xor(a, b) ==
    IF a = 0 /\ b = 0 THEN 0
    ELSE (((a % 2) + (b % 2)) % 2) + 2 * Xor(a \div 2, b \div 2)

RECURSIVE SeqsUpTo(_, _)
SeqsUpTo(S, n) ==
    IF n = 0 THEN {<<>>}
    ELSE LET shorter == SeqsUpTo(S, n - 1)
         IN  shorter \cup {Append(s, x) : s \in {y \in shorter : Len(y) = n - 1}, x \in S}

Fill(n, b) == [i \in 1..n |-> b]

Min(a, b) == IF a < b THEN a ELSE b

\* the first n bytes behind a pointer
Take(buf, n) == SubSeq(buf, 1, Min(n, Len(buf)))

\* memcpy(buf, data, Len(data))
WriteAt(buf, data) ==
    [i \in 1..Len(buf) |-> IF i <= Len(data) THEN data[i] ELSE buf[i]]

\* memset(buf, 0, n)
ZeroPrefix(buf, n) ==
    [i \in 1..Len(buf) |-> IF i <= n THEN 0 ELSE buf[i]]

RECURSIVE Sum(_)
Sum(s) == IF s = <<>> THEN 0 ELSE Head(s) + Sum(Tail(s))

RECURSIVE Poly(_)
Poly(s) == IF s = <<>> THEN 0 ELSE (Head(s) + (2 * Poly(Tail(s)))) % 256

----------------------------------------------------------------------------
(* The provider's primitives *)

\* keystream byte i of the stream cipher under (key k, nonce n)
KeyStream(k, n, i) == (Sum(k) + (3 * Sum(n)) + (7 * i) + 1) % 256

StreamXor(x, n, k) == [i \in 1..Len(x) |-> Xor(x[i], KeyStream(k, n, i))]

\* the 16-byte tag over (ad, ciphertext body) under (key, nonce)
Mac(body, ad, n, k) ==
    LET head == << Sum(k) % 256, Sum(n) % 256, Len(ad), Poly(ad),
                   Len(body), Poly(body), KeyStream(k, n, 0) >>
    IN  head \o Fill(crypto_aead_chacha20poly1305_ietf_ABYTES - Len(head), 0)

----------------------------------------------------------------------------
(* The provider's routines, as the adapter calls them.  Each returns the    *)
(* int result, the new content of the output buffer and the value stored    *)
(* through the output-length pointer.                                       *)

NULL == <<>>

\* crypto_aead_chacha20poly1305_ietf_encrypt(c, clen_p, m, mlen, ad, adlen, nsec, npub, k)
crypto_aead_chacha20poly1305_ietf_encrypt(c, m, mlen, ad, adlen, nsec, npub, k) ==
    LET body == StreamXor(Take(m, mlen), npub, k)
        tag  == Mac(body, Take(ad, adlen), npub, k)
    IN  [ret |-> 0,
         out |-> WriteAt(c, body \o tag),
         out_len |-> mlen + crypto_aead_chacha20poly1305_ietf_ABYTES]

\* a decryption that writes the plaintext before it verifies the tag and does
\* not wipe it when the verification fails
decrypt_without_wipe(m, nsec, c, clen, ad, adlen, npub, k) ==
    LET A    == crypto_aead_chacha20poly1305_ietf_ABYTES
        ct   == Take(c, clen)
        body == SubSeq(ct, 1, clen - A)
        tag  == SubSeq(ct, clen - A + 1, clen)
    IN  IF clen < A
        THEN [ret |-> -1, out |-> m, out_len |-> 0]
        ELSE IF tag = Mac(body, Take(ad, adlen), npub, k)
        THEN [ret |-> 0,
              out |-> WriteAt(m, StreamXor(body, npub, k)),
              out_len |-> clen - A]
        ELSE [ret |-> -1, out |-> WriteAt(m, StreamXor(body, npub, k)), out_len |-> 0]

\* crypto_aead_chacha20poly1305_ietf_decrypt(m, mlen_p, nsec, c, clen, ad, adlen, npub, k)
crypto_aead_chacha20poly1305_ietf_decrypt(m, nsec, c, clen, ad, adlen, npub, k) ==
    LET A    == crypto_aead_chacha20poly1305_ietf_ABYTES
        ct   == Take(c, clen)
        body == SubSeq(ct, 1, clen - A)
        tag  == SubSeq(ct, clen - A + 1, clen)
    IN  IF clen < A
        THEN [ret |-> -1, out |-> m, out_len |-> 0]
        ELSE IF tag = Mac(body, Take(ad, adlen), npub, k)
        THEN [ret |-> 0,
              out |-> WriteAt(m, StreamXor(body, npub, k)),
              out_len |-> clen - A]
        ELSE [ret |-> -1, out |-> ZeroPrefix(m, clen - A), out_len |-> 0]

----------------------------------------------------------------------------
(* The adapter: src/LibSodium/c/libsodium.cpp *)

\* the three accessors
chacha20_poly1305_keybytes == crypto_aead_chacha20poly1305_ietf_KEYBYTES

chacha20_poly1305_noncebytes == crypto_aead_chacha20poly1305_ietf_NPUBBYTES

\* the tag-length accessor returning the nonce length
abytes_returns_npubbytes == crypto_aead_chacha20poly1305_ietf_NPUBBYTES

chacha20_poly1305_abytes == crypto_aead_chacha20poly1305_ietf_ABYTES

AccessorValue(name) ==
    CASE name = "keybytes"   -> chacha20_poly1305_keybytes
      [] name = "noncebytes" -> chacha20_poly1305_noncebytes
      [] name = "abytes"     -> chacha20_poly1305_abytes

\* the guard with the comparison off by one
InitFailedOffByOne(r) == r < -1

\* the guard treating "already initialised" (1) as the failure
InitFailedPositive(r) == r > 0

\* a guard that remembers an earlier failure
InitFailedSticky(r) == r < 0 \/ everInitFailed

\* if (sodium_init() < 0)
InitFailed(r) == r < 0

\* the failure reported as a positive error code
InitFailStatusPositive(r) == -r

\* return -1;  (r is what sodium_init returned)
InitFailStatus(r) == -1

\* the encrypt call with the message and the associated data exchanged
EncryptCallSwapped(buf, a) ==
    crypto_aead_chacha20poly1305_ietf_encrypt(
        buf, a.ad, a.ad_len, a.in, a.in_len, NULL, a.npub, a.k)

\* the encrypt call with ad_len passed as the message length
EncryptCallAdLen(buf, a) ==
    crypto_aead_chacha20poly1305_ietf_encrypt(
        buf, a.in, a.ad_len, a.ad, a.ad_len, NULL, a.npub, a.k)

\* the provider call of chacha20_poly1305_encrypt, with the adapter's argument order
EncryptCall(buf, a) ==
    crypto_aead_chacha20poly1305_ietf_encrypt(
        buf, a.in, a.in_len, a.ad, a.ad_len, NULL, a.npub, a.k)

\* the provider call of chacha20_poly1305_decrypt, with the adapter's argument order
DecryptCall(buf, a) ==
    crypto_aead_chacha20poly1305_ietf_decrypt(
        buf, NULL, a.in, a.in_len, a.ad, a.ad_len, a.npub, a.k)

----------------------------------------------------------------------------
(* Inputs *)

InBytes == {0, 1}

Key0 == Fill(crypto_aead_chacha20poly1305_ietf_KEYBYTES, 0)
Key1 == Fill(crypto_aead_chacha20poly1305_ietf_KEYBYTES, 1)
Nonce0 == Fill(crypto_aead_chacha20poly1305_ietf_NPUBBYTES, 0)
Nonce1 == Fill(crypto_aead_chacha20poly1305_ietf_NPUBBYTES, 1)

Keys == {Key0, Key1}
Nonces == {Nonce0, Nonce1}
Messages == SeqsUpTo(InBytes, MaxLen)
ADs == {<<>>, <<1>>}

NoArgs == [in |-> <<>>, in_len |-> 0, ad |-> <<>>, ad_len |-> 0,
           npub |-> <<>>, k |-> <<>>]
NoPre == [buf |-> <<>>, len |-> 0]
NoAcc == <<"none", 0>>

MkArgs(in, ad, npub, k) ==
    [in |-> in, in_len |-> Len(in), ad |-> ad, ad_len |-> Len(ad),
     npub |-> npub, k |-> k]

\* byte i of s with its lowest bit flipped
FlipAt(s, i) == [s EXCEPT ![i] = Xor(s[i], 1)]

\* the ciphertexts a caller may hand to decrypt: what the last encryption left
\* in its buffer, that with one bit flipped (in the first byte of the body, in
\* the last byte of the tag), and that cut short (below the tag length, by one)
CtChoices(buf, len) ==
    LET A  == crypto_aead_chacha20poly1305_ietf_ABYTES
        ct == Take(buf, len)
    IN  {ct}
        \cup {FlipAt(ct, i) : i \in {1, len} \cap (1..len)}
        \cup {SubSeq(ct, 1, n) : n \in {A - 1, len - 1} \cap (0..len)}

----------------------------------------------------------------------------
(* State after start-up: nothing initialised, every thread idle, the        *)
(* callers' buffers allocated and not yet written.                          *)

InitFor(T) ==
    /\ initialized = FALSE
    /\ lock = {}
    /\ initRuns = 0
    /\ pc = [t \in T |-> "idle"]
    /\ op = [t \in T |-> "none"]
    /\ args = [t \in T |-> NoArgs]
    /\ initRes = [t \in T |-> 0]
    /\ status = [t \in T |-> 0]
    /\ ctBuf = [t \in T |-> Fill(Cap, Poison)]
    /\ ctLen = [t \in T |-> 0]
    /\ msgBuf = [t \in T |-> Fill(MaxLen, Poison)]
    /\ msgLen = [t \in T |-> 0]
    /\ lastEnc = [t \in T |-> NoArgs]
    /\ pre = [t \in T |-> NoPre]
    /\ nInit = [t \in T |-> 0]
    /\ nProv = [t \in T |-> 0]
    /\ cause = [t \in T |-> "none"]
    /\ everInitFailed = FALSE
    /\ lastAcc = [t \in T |-> NoAcc]

Threads == DOMAIN pc

----------------------------------------------------------------------------
(* A caller enters chacha20_poly1305_encrypt / chacha20_poly1305_decrypt *)

Enter(t, o, a, p) ==
    /\ pc[t] = "idle"
    /\ pc' = [pc EXCEPT ![t] = "init"]
    /\ op' = [op EXCEPT ![t] = o]
    /\ args' = [args EXCEPT ![t] = a]
    /\ pre' = [pre EXCEPT ![t] = p]
    /\ lastAcc' = [lastAcc EXCEPT ![t] = NoAcc]
    /\ UNCHANGED <<initialized, lock, initRuns, initRes, status, ctBuf, ctLen,
                   msgBuf, msgLen, lastEnc, nInit, nProv, cause, everInitFailed>>

CallEncrypt(t, Ms, As, Ns, Ks) ==
    \E m \in Ms, ad \in As, npub \in Ns, k \in Ks :
        Enter(t, "enc", MkArgs(m, ad, npub, k),
              [buf |-> ctBuf[t], len |-> ctLen[t]])

CallDecrypt(t, As, Ns, Ks) ==
    \E c \in CtChoices(ctBuf[t], ctLen[t]), ad \in As, npub \in Ns, k \in Ks :
        Enter(t, "dec", MkArgs(c, ad, npub, k),
              [buf |-> msgBuf[t], len |-> msgLen[t]])

----------------------------------------------------------------------------
(* sodium_init(): serialised by libsodium's critical section *)

\* an initialiser without mutual exclusion
CritFreeAlways == TRUE

\* sodium_crit_enter() succeeds when no other thread is inside
CritFree == lock = {}

\* sodium_init: the critical section is entered and the flag is read
SodiumInitEnter(t) ==
    /\ pc[t] = "init"
    /\ CritFree
    /\ lock' = lock \cup {t}
    /\ initRes' = [initRes EXCEPT ![t] = IF initialized THEN 1 ELSE 0]
    /\ pc' = [pc EXCEPT ![t] = "crit"]
    /\ nInit' = [nInit EXCEPT ![t] = @ + 1]
    /\ UNCHANGED <<initialized, initRuns, op, args, status, ctBuf, ctLen,
                   msgBuf, msgLen, lastEnc, pre, nProv, cause, everInitFailed,
                   lastAcc>>

\* sodium_init: a thread that read the flag as unset sets the library up and
\* returns 0, one that read it as set returns 1; the critical section is left
SodiumInitLeave(t) ==
    /\ pc[t] = "crit"
    /\ initialized' = TRUE
    /\ initRuns' = IF initRes[t] = 0 THEN initRuns + 1 ELSE initRuns
    /\ lock' = lock \ {t}
    /\ pc' = [pc EXCEPT ![t] = "check"]
    /\ UNCHANGED <<op, args, initRes, status, ctBuf, ctLen, msgBuf, msgLen,
                   lastEnc, pre, nInit, nProv, cause, everInitFailed, lastAcc>>

\* sodium_init: reports failure (-1) and leaves the library as it was
SodiumInitFail(t) ==
    /\ pc[t] = "init"
    /\ initRes' = [initRes EXCEPT ![t] = -1]
    /\ pc' = [pc EXCEPT ![t] = "check"]
    /\ nInit' = [nInit EXCEPT ![t] = @ + 1]
    /\ everInitFailed' = TRUE
    /\ UNCHANGED <<initialized, lock, initRuns, op, args, status, ctBuf, ctLen,
                   msgBuf, msgLen, lastEnc, pre, nProv, cause, lastAcc>>

----------------------------------------------------------------------------
(* The body of the adapter call after sodium_init has returned *)

\* if (sodium_init() < 0) return -1;
GuardFail(t) ==
    /\ pc[t] = "check"
    /\ InitFailed(initRes[t])
    /\ status' = [status EXCEPT ![t] = InitFailStatus(initRes[t])]
    /\ cause' = [cause EXCEPT ![t] = "init"]
    /\ pc' = [pc EXCEPT ![t] = "ret"]
    /\ UNCHANGED <<initialized, lock, initRuns, op, args, initRes, ctBuf, ctLen,
                   msgBuf, msgLen, lastEnc, pre, nInit, nProv, everInitFailed, lastAcc>>

\* the guard is passed: control reaches the provider call
GuardPass(t) ==
    /\ pc[t] = "check"
    /\ ~InitFailed(initRes[t])
    /\ pc' = [pc EXCEPT ![t] = "provider"]
    /\ UNCHANGED <<initialized, lock, initRuns, op, args, initRes, status, ctBuf,
                   ctLen, msgBuf, msgLen, lastEnc, pre, nInit, nProv, cause,
                   everInitFailed, lastAcc>>

\* return crypto_aead_chacha20poly1305_ietf_encrypt(...);
ProviderEncrypt(t) ==
    /\ pc[t] = "provider"
    /\ op[t] = "enc"
    /\ LET r == EncryptCall(ctBuf[t], args[t])
       IN  /\ ctBuf' = [ctBuf EXCEPT ![t] = r.out]
           /\ ctLen' = [ctLen EXCEPT ![t] = r.out_len]
           /\ status' = [status EXCEPT ![t] = r.ret]
           /\ cause' = [cause EXCEPT ![t] = IF r.ret = 0 THEN "none" ELSE "auth"]
    /\ lastEnc' = [lastEnc EXCEPT ![t] = args[t]]
    /\ nProv' = [nProv EXCEPT ![t] = @ + 1]
    /\ pc' = [pc EXCEPT ![t] = "ret"]
    /\ UNCHANGED <<initialized, lock, initRuns, op, args, initRes, msgBuf,
                   msgLen, pre, nInit, everInitFailed, lastAcc>>

\* return crypto_aead_chacha20poly1305_ietf_decrypt(...);
ProviderDecrypt(t) ==
    /\ pc[t] = "provider"
    /\ op[t] = "dec"
    /\ LET r == DecryptCall(msgBuf[t], args[t])
       IN  /\ msgBuf' = [msgBuf EXCEPT ![t] = r.out]
           /\ msgLen' = [msgLen EXCEPT ![t] = r.out_len]
           /\ status' = [status EXCEPT ![t] = r.ret]
           /\ cause' = [cause EXCEPT ![t] = IF r.ret = 0 THEN "none" ELSE "auth"]
    /\ nProv' = [nProv EXCEPT ![t] = @ + 1]
    /\ pc' = [pc EXCEPT ![t] = "ret"]
    /\ UNCHANGED <<initialized, lock, initRuns, op, args, initRes, ctBuf, ctLen,
                   lastEnc, pre, nInit, everInitFailed, lastAcc>>

\* the call has returned and the caller has read its status
Return(t) ==
    /\ pc[t] = "ret"
    /\ pc' = [pc EXCEPT ![t] = "idle"]
    /\ op' = [op EXCEPT ![t] = "none"]
    /\ args' = [args EXCEPT ![t] = NoArgs]
    /\ initRes' = [initRes EXCEPT ![t] = 0]
    /\ status' = [status EXCEPT ![t] = 0]
    /\ pre' = [pre EXCEPT ![t] = NoPre]
    /\ nInit' = [nInit EXCEPT ![t] = 0]
    /\ nProv' = [nProv EXCEPT ![t] = 0]
    /\ cause' = [cause EXCEPT ![t] = "none"]
    /\ UNCHANGED <<initialized, lock, initRuns, ctBuf, ctLen, msgBuf, msgLen,
                   lastEnc, everInitFailed, lastAcc>>

\* chacha20_poly1305_keybytes() / _noncebytes() / _abytes()
Accessor(t, name) ==
    /\ pc[t] = "idle"
    /\ lastAcc' = [lastAcc EXCEPT ![t] = <<name, AccessorValue(name)>>]
    /\ UNCHANGED callVars

AccessorNames == {"keybytes", "noncebytes", "abytes"}

----------------------------------------------------------------------------
(* One caller, the full input sets *)

Init == InitFor({1})

Next ==
    \/ \E t \in Threads : CallEncrypt(t, Messages, ADs, Nonces, Keys)
    \/ \E t \in Threads : CallDecrypt(t, ADs, Nonces, Keys)
    \/ \E t \in Threads : SodiumInitEnter(t)
    \/ \E t \in Threads : SodiumInitLeave(t)
    \/ \E t \in Threads : SodiumInitFail(t)
    \/ \E t \in Threads : GuardFail(t)
    \/ \E t \in Threads : GuardPass(t)
    \/ \E t \in Threads : ProviderEncrypt(t)
    \/ \E t \in Threads : ProviderDecrypt(t)
    \/ \E t \in Threads : Return(t)
    \/ \E t \in Threads, name \in AccessorNames : Accessor(t, name)

Spec == Init /\ [][Next]_vars

----------------------------------------------------------------------------
(* Two callers on two threads, each with its own buffers *)

ConcMessages == {<<1>>}
ConcADs == {<<>>}
ConcNonces == {Nonce0}
ConcKeys == {Key0}

InitConc == InitFor({1, 2})

NextConc ==
    \/ \E t \in Threads : CallEncrypt(t, ConcMessages, ConcADs, ConcNonces, ConcKeys)
    \/ \E t \in Threads : CallDecrypt(t, ConcADs, ConcNonces, ConcKeys)
    \/ \E t \in Threads : SodiumInitEnter(t)
    \/ \E t \in Threads : SodiumInitLeave(t)
    \/ \E t \in Threads : SodiumInitFail(t)
    \/ \E t \in Threads : GuardFail(t)
    \/ \E t \in Threads : GuardPass(t)
    \/ \E t \in Threads : ProviderEncrypt(t)
    \/ \E t \in Threads : ProviderDecrypt(t)
    \/ \E t \in Threads : Return(t)
    \/ \E t \in Threads, name \in AccessorNames : Accessor(t, name)

SpecConc == InitConc /\ [][NextConc]_vars

----------------------------------------------------------------------------
(* Properties *)

Returned(t) == pc[t] = "ret"

InitOk(t) == initRes[t] >= 0

\* the decrypt call of thread t was given exactly what its last encryption
\* produced, with the same associated data, nonce and key
SameAsEncrypted(t) ==
    /\ lastEnc[t] # NoArgs
    /\ args[t].in = Take(ctBuf[t], ctLen[t])
    /\ args[t].ad = lastEnc[t].ad
    /\ args[t].npub = lastEnc[t].npub
    /\ args[t].k = lastEnc[t].k

\* C1: round trip. When sodium_init succeeds, encrypt returns 0, and decrypt of
\* the ciphertext it produced, under the same associated data, nonce and key,
\* returns 0 with message_len the plaintext length and the message buffer
\* holding exactly the plaintext.
RoundTrip ==
    \A t \in Threads :
        Returned(t) /\ InitOk(t) =>
            /\ op[t] = "enc" => status[t] = 0
            /\ op[t] = "dec" /\ SameAsEncrypted(t) =>
                  /\ status[t] = 0
                  /\ msgLen[t] = lastEnc[t].in_len
                  /\ Take(msgBuf[t], msgLen[t]) = lastEnc[t].in

RoundTripWitness ==
    \E t \in Threads :
        /\ Returned(t) /\ InitOk(t) /\ op[t] = "dec" /\ SameAsEncrypted(t)
        /\ lastEnc[t].in = <<1>>
        /\ lastEnc[t].ad = <<1>>
        /\ lastEnc[t].k = Key1
        /\ Take(msgBuf[t], msgLen[t]) = <<1>>

\* C3: atomic decryption failure. After a decrypt that failed in the provider
\* (tag verification), message_len is 0 and the message buffer is what it was
\* before the call with some prefix set to zero: nothing in it comes from the
\* plaintext.
AtomicDecryptFailure ==
    \A t \in Threads :
        Returned(t) /\ op[t] = "dec" /\ cause[t] = "auth" =>
            /\ status[t] = -1
            /\ msgLen[t] = 0
            /\ \E n \in 0..Len(pre[t].buf) : msgBuf[t] = ZeroPrefix(pre[t].buf, n)

\* a ciphertext of the plaintext <<1>> with its tag tampered is rejected and
\* the message buffer, which held Poison, now holds 0
AtomicDecryptFailureWitness ==
    \E t \in Threads :
        /\ Returned(t) /\ op[t] = "dec" /\ cause[t] = "auth"
        /\ lastEnc[t].in = <<1>>
        /\ args[t].in_len = ctLen[t]
        /\ args[t].in # Take(ctBuf[t], ctLen[t])
        /\ pre[t].buf[1] = Poison
        /\ msgBuf[t][1] = 0

\* C4: when sodium_init reports failure the call returns -1, the provider
\* routine is not invoked, and the output buffer and the output length are
\* what they were before the call.
InitFailureAborts ==
    \A t \in Threads :
        Returned(t) /\ initRes[t] < 0 =>
            /\ status[t] = -1
            /\ nProv[t] = 0
            /\ op[t] = "enc" => ctBuf[t] = pre[t].buf /\ ctLen[t] = pre[t].len
            /\ op[t] = "dec" => msgBuf[t] = pre[t].buf /\ msgLen[t] = pre[t].len

\* an encrypt call fails on initialisation over a buffer that holds an
\* earlier ciphertext
InitFailureAbortsWitness ==
    \E t \in Threads :
        /\ Returned(t) /\ initRes[t] < 0 /\ op[t] = "enc"
        /\ status[t] = -1
        /\ pre[t].len > crypto_aead_chacha20poly1305_ietf_ABYTES
        /\ args[t].in # lastEnc[t].in

\* C5: length invariant. A successful encrypt reports ciphertext_len =
\* message_len + chacha20_poly1305_abytes() = message_len + 16; a successful
\* decrypt reports message_len = ciphertext_len - chacha20_poly1305_abytes().
LengthInvariant ==
    \A t \in Threads :
        Returned(t) /\ status[t] = 0 =>
            /\ op[t] = "enc" =>
                  /\ ctLen[t] = args[t].in_len + chacha20_poly1305_abytes
                  /\ ctLen[t] = args[t].in_len + 16
            /\ op[t] = "dec" =>
                  msgLen[t] = args[t].in_len - chacha20_poly1305_abytes

\* the empty message with non-empty associated data encrypts to 16 bytes
LengthInvariantWitness ==
    \E t \in Threads :
        /\ Returned(t) /\ status[t] = 0 /\ op[t] = "enc"
        /\ args[t].in_len = 0
        /\ args[t].ad_len = 1
        /\ ctLen[t] = 16

\* C6: concurrent first calls. In every interleaving the library is set up at
\* most once and by one thread at a time, every encrypt whose sodium_init
\* succeeded returns 0, and two calls with the same inputs over the same
\* buffer content end with the same status and the same output.
OutBuf(t) == IF op[t] = "enc" THEN ctBuf[t] ELSE msgBuf[t]

OutLen(t) == IF op[t] = "enc" THEN ctLen[t] ELSE msgLen[t]

UniformFailureSignal ==
    \A t \in Threads :
        Returned(t) =>
            /\ status[t] \in {0, -1}
            /\ cause[t] \in {"init", "auth"} => status[t] = -1
            /\ cause[t] = "none" => status[t] = 0
            /\ initRes[t] < 0 => cause[t] = "init"

\* one decrypt failed on initialisation, another on the tag, both returned -1
UniformFailureSignalWitness ==
    \E t, u \in Threads :
        /\ Returned(t) /\ Returned(u)
        /\ op[t] = "dec" /\ op[u] = "dec"
        /\ cause[t] = "init" /\ cause[u] = "auth"
        /\ status[t] = status[u]

\* C8: the accessors return 32, 12 and 16 in every state, and an accessor call
\* changes nothing of the adapter's or the provider's state (it does not
\* initialise the provider).
AccessorResults ==
    {NoAcc, <<"keybytes", 32>>, <<"noncebytes", 12>>, <<"abytes", 16>>}

ConstantAccessors ==
    /\ [](\A t \in Threads : lastAcc[t] \in AccessorResults)
    /\ [][(\E t \in Threads : lastAcc'[t] # lastAcc[t] /\ lastAcc'[t] # NoAcc)
            => UNCHANGED callVars]_vars

\* the tag length is read after a failed call, before the provider was ever
\* initialised
ConstantAccessorsWitness ==
    \E t \in Threads :
        /\ lastAcc[t] = <<"abytes", 16>>
        /\ ~initialized
        /\ everInitFailed

\* C9: no retries, failure per operation. A call invokes sodium_init exactly
\* once and the provider routine at most once, and the provider routine runs
\* exactly when this call's sodium_init succeeded, whatever earlier calls saw.
NoRetries ==
    \A t \in Threads :
        /\ nInit[t] <= 1
        /\ nProv[t] <= 1
        /\ Returned(t) =>
              /\ nInit[t] = 1
              /\ nProv[t] = 1 <=> InitOk(t)
              /\ cause[t] = "init" <=> ~InitOk(t)

\* after an earlier call failed on initialisation, a decrypt returns 0
NoRetriesWitness ==
    \E t \in Threads :
        /\ everInitFailed
        /\ Returned(t) /\ InitOk(t)
        /\ op[t] = "dec"
        /\ nInit[t] = 1 /\ nProv[t] = 1
        /\ status[t] = 0

\* C10: initialisation precedes use. A thread is at or past the provider call
\* only if sodium_init returned 0 or 1 in that same call, and then the provider
\* is initialised; both 0 and 1 lead to the provider call.
InitPrecedesUse ==
    \A t \in Threads :
        /\ pc[t] = "provider" \/ nProv[t] > 0 =>
              /\ nInit[t] = 1
              /\ initRes[t] \in {0, 1}
              /\ initialized
        /\ Returned(t) /\ initRes[t] \in {0, 1} => nProv[t] = 1

\* two threads are at the provider call together, one after a fresh
\* initialisation (0), the other after finding it done (1)
InitPrecedesUseWitness ==
    \E t, u \in Threads :
        /\ pc[t] = "provider" /\ pc[u] = "provider"
        /\ initRes[t] = 0 /\ initRes[u] = 1

====
